---- MODULE Spec2Model ----
(***************************************************************************)
(* A model of src/main.py: the SteamBackup orchestrator.  One process run  *)
(* is main() -> load_config -> SteamBackup.__init__ (_validate_paths,      *)
(* _convert_legacy_csv, _read_backup_json) -> run_backup, which handles    *)
(* the globbed appmanifest files one after the other.  The file system     *)
(* (backup.csv, backup.csv.old, backup.json) outlives the process; the     *)
(* model follows two consecutive process runs over the same manifests.     *)
(***************************************************************************)
EXTENDS Integers, Sequences, FiniteSets, TLC

\* The largest number of appmanifest_*.acf files the directory listing yields.
MaxManifests == 2

\* The largest number of entries of a state mapping written and read back.
MaxEntries == 2

(***************************************************************************)
(* Python dicts keep insertion order: a dict is a sequence of members      *)
(* [k, v] with pairwise distinct keys.                                     *)
(***************************************************************************)
EmptyDict == <<>>

Keys(d) == {d[i].k : i \in DOMAIN d}

Has(d, key) == key \in Keys(d)

Get(d, key) == d[CHOOSE i \in DOMAIN d : d[i].k = key].v

\* d[key] = val
Put(d, key, val) ==
    IF Has(d, key)
    THEN [i \in DOMAIN d |-> IF d[i].k = key THEN [k |-> key, v |-> val] ELSE d[i]]
    ELSE Append(d, [k |-> key, v |-> val])

\* A store entry, as lines 44-48 and 89-93 build it.
Entry(buildid, lastupdated, manifest) ==
    [buildid |-> buildid, lastupdated |-> lastupdated, manifest |-> manifest]

(***************************************************************************)
(* JSON values.  A value is [t, m]: t = "obj" with m its members, or       *)
(* t = "arr", a document whose top level is a list.                        *)
(***************************************************************************)
Obj(d) == [t |-> "obj", m |-> d]

Arr == [t |-> "arr", m |-> EmptyDict]

(***************************************************************************)
(* Files.  backup.json is absent, holds a complete JSON document, holds    *)
(* the cut-off text an interrupted write leaves behind (no prefix of a     *)
(* json.dump output is itself a JSON document), or holds bytes that are    *)
(* not UTF-8.  backup.csv and backup.csv.old are absent or hold rows.      *)
(***************************************************************************)
NoJson == [kind |-> "absent", doc |-> Obj(EmptyDict)]

JsonDoc(val) == [kind |-> "json", doc |-> val]

Truncated == [kind |-> "truncated", doc |-> Obj(EmptyDict)]

Undecodable == [kind |-> "undecodable", doc |-> Obj(EmptyDict)]

NoCsv == [kind |-> "absent", rows |-> <<>>]

CsvRows(rows) == [kind |-> "rows", rows |-> rows]

(***************************************************************************)
(* The values the manifests, the legacy rows and the stored entries are    *)
(* drawn from.                                                             *)
(***************************************************************************)
FpX == Entry("100", "1700000000", "555")
FpY == Entry("101", "1700000000", "555")
FpT == Entry("100", "1700086400", "555")
FpM == Entry("100", "1700000000", "556")

\* The characters of the last-updated strings in use.
Chars(s) ==
    CASE s = "1700000000" -> <<"1", "7", "0", "0", "0", "0", "0", "0", "0", "0">>
      [] s = "1700086400" -> <<"1", "7", "0", "0", "0", "8", "6", "4", "0", "0">>
      [] OTHER -> <<>>

(***************************************************************************)
(* Manifest text.  An .acf file is a sequence of tokens: [t |-> "kv"] is a *)
(* line "k"<tab><tab>"v", [t |-> "name"] a quoted section name on a line   *)
(* of its own, [t |-> "open"] and [t |-> "close"] the braces.              *)
(***************************************************************************)
Kv(k, v) == [t |-> "kv", k |-> k, v |-> v]

Name(k) == [t |-> "name", k |-> k, v |-> ""]

Open == [t |-> "open", k |-> "", v |-> ""]

Close == [t |-> "close", k |-> "", v |-> ""]

\* An app manifest as Steam writes it, with one depot.
Acf(appid, installdir, fp) ==
    << Name("AppState"), Open,
       Kv("appid", appid), Kv("installdir", installdir),
       Kv("lastupdated", fp.lastupdated), Kv("buildid", fp.buildid),
       Name("InstalledDepots"), Open,
       Name("481"), Open, Kv("manifest", fp.manifest), Kv("size", "1024"), Close,
       Close,
       Close >>

\* The same without the InstalledDepots section.
AcfNoDepots(appid, installdir, fp) ==
    << Name("AppState"), Open,
       Kv("appid", appid), Kv("installdir", installdir),
       Kv("lastupdated", fp.lastupdated), Kv("buildid", fp.buildid),
       Close >>

\* The files of the library the directory listing can yield.
AcfNames ==
    {"appmanifest_480.acf", "appmanifest_481.acf", "appmanifest_570.acf",
     "appmanifest_620.acf", "appmanifest_730.acf"}

\* A manifest whose depot section holds no manifest id, followed by a section
\* of staged depots that holds one.
AcfStaged(appid, installdir, fp, staged) ==
    << Name("AppState"), Open,
       Kv("appid", appid), Kv("installdir", installdir),
       Kv("lastupdated", fp.lastupdated), Kv("buildid", fp.buildid),
       Name("InstalledDepots"), Open,
       Name("481"), Open, Kv("size", "1024"), Close,
       Close,
       Name("StagedDepots"), Open,
       Name("482"), Open, Kv("manifest", staged), Kv("size", "2048"), Close,
       Close,
       Close >>

\* A manifest with two depot sections, the first without a manifest id.
AcfTwice(appid, installdir, fp) ==
    << Name("AppState"), Open,
       Kv("appid", appid), Kv("installdir", installdir),
       Kv("lastupdated", fp.lastupdated), Kv("buildid", fp.buildid),
       Name("InstalledDepots"), Open,
       Close,
       Name("InstalledDepots"), Open,
       Name("481"), Open, Kv("manifest", fp.manifest), Close,
       Close,
       Close >>

\* A manifest with a manifest id before its depot section and none inside it.
AcfEarlier(appid, installdir, fp) ==
    << Name("AppState"), Open,
       Kv("appid", appid), Kv("installdir", installdir),
       Name("UserConfig"), Open, Kv("manifest", fp.manifest), Close,
       Kv("lastupdated", fp.lastupdated), Kv("buildid", fp.buildid),
       Name("InstalledDepots"), Open,
       Close,
       Close >>

\* A manifest with two depots, and a manifest id after the depot section too.
AcfTwoDepots(appid, installdir, fp, staged) ==
    << Name("AppState"), Open,
       Kv("appid", appid), Kv("installdir", installdir),
       Kv("lastupdated", fp.lastupdated), Kv("buildid", fp.buildid),
       Name("InstalledDepots"), Open,
       Name("481"), Open, Kv("manifest", fp.manifest), Kv("size", "1024"), Close,
       Name("482"), Open, Kv("manifest", "556"), Kv("size", "2048"), Close,
       Close,
       Name("StagedDepots"), Open,
       Name("483"), Open, Kv("manifest", staged), Close,
       Close,
       Close >>

\* A manifest without the line of one label.
AcfWithout(key, appid, installdir, fp) ==
    SelectSeq(Acf(appid, installdir, fp), LAMBDA tok : ~ (tok.t = "kv" /\ tok.k = key))

\* Files of unusual shape a library can hold as well.
OddAcfNames ==
    {"appmanifest_10.acf", "appmanifest_20.acf", "appmanifest_30.acf",
     "appmanifest_40.acf", "appmanifest_51.acf", "appmanifest_52.acf",
     "appmanifest_53.acf", "appmanifest_54.acf"}

\* What each file holds: 481 declares the identity 480 again, with a newer
\* build; 620 has no depot section; 730 has an empty last-updated value.
FileContent(name) ==
    CASE name = "appmanifest_480.acf" -> Acf("480", "Spacewar", FpX)
      [] name = "appmanifest_481.acf" -> Acf("480", "Spacewar", FpY)
      [] name = "appmanifest_570.acf" -> Acf("570", "Dota", Entry("200", "1700086400", "777"))
      [] name = "appmanifest_620.acf" -> AcfNoDepots("620", "Portal", FpX)
      [] name = "appmanifest_730.acf" -> Acf("730", "Counter", Entry("300", "", "888"))
      [] name = "appmanifest_10.acf"  -> AcfStaged("10", "Staged", FpX, "999")
      [] name = "appmanifest_20.acf"  -> AcfTwice("20", "Twice", FpX)
      [] name = "appmanifest_30.acf"  -> AcfEarlier("30", "Earlier", FpX)
      [] name = "appmanifest_40.acf"  -> AcfTwoDepots("40", "Two", FpX, "999")
      [] name = "appmanifest_51.acf"  -> AcfWithout("appid", "51", "Game", FpX)
      [] name = "appmanifest_52.acf"  -> AcfWithout("installdir", "52", "Game", FpX)
      [] name = "appmanifest_53.acf"  -> AcfWithout("buildid", "53", "Game", FpX)
      [] name = "appmanifest_54.acf"  -> AcfWithout("lastupdated", "54", "Game", FpX)

(***************************************************************************)
(* _parse_acf_content, lines 130-152.                                      *)
(***************************************************************************)
\* content.split('"<key>"\t\t"'): the places where the label occurs.
KvAt(toks, key) == {i \in DOMAIN toks : toks[i].t = "kv" /\ toks[i].k = key}

\* content.split('"InstalledDepots"'): the places where the marker occurs.
MarkerAt(toks) == {i \in DOMAIN toks : toks[i].t = "name" /\ toks[i].k = "InstalledDepots"}

Min(S) == CHOOSE x \in S : \A y \in S : x <= y

\* content.split('"InstalledDepots"')[1]: the text after the first marker, up
\* to the next marker or the end of the text.
DepotsSection(toks) ==
    LET first == Min(MarkerAt(toks))
        later == {i \in MarkerAt(toks) : i > first}
        last  == IF later = {} THEN Len(toks) ELSE Min(later) - 1
    IN  SubSeq(toks, first + 1, last)

ScalarFields == <<"appid", "installdir", "buildid", "lastupdated">>

\* The first scalar label the text lacks ("" when it has them all), in the order
\* the loop of lines 140-144 asks for them.
MissingScalar(toks) ==
    LET miss == {i \in DOMAIN ScalarFields : KvAt(toks, ScalarFields[i]) = {}}
    IN  IF miss = {} THEN "" ELSE ScalarFields[Min(miss)]

\* .split(pattern)[1].split('"')[0]: the value at the first occurrence.
FirstValue(toks, key) == toks[Min(KvAt(toks, key))].v

\* err = "" and the five fields, or err = the missing field (a ValueError).
ParseAcfContent(toks) ==
    LET bad == [err |-> "x", appid |-> "", installdir |-> "", buildid |-> "",
                lastupdated |-> "", manifest |-> ""]
    IN  IF MissingScalar(toks) # ""
        THEN [bad EXCEPT !.err = MissingScalar(toks)]
        ELSE IF MarkerAt(toks) = {} \/ KvAt(DepotsSection(toks), "manifest") = {}
        THEN [bad EXCEPT !.err = "manifest"]
        ELSE [err |-> "",
              appid |-> FirstValue(toks, "appid"),
              installdir |-> FirstValue(toks, "installdir"),
              buildid |-> FirstValue(toks, "buildid"),
              lastupdated |-> FirstValue(toks, "lastupdated"),
              manifest |-> FirstValue(DepotsSection(toks), "manifest")]

(***************************************************************************)
(* int(lastupdated), line 83: the decimal value of the string, or -1 where *)
(* int() raises ValueError (no characters, or one that is no digit).       *)
(***************************************************************************)
DigitValue(c) ==
    CASE c = "0" -> 0 [] c = "1" -> 1 [] c = "2" -> 2 [] c = "3" -> 3 [] c = "4" -> 4
      [] c = "5" -> 5 [] c = "6" -> 6 [] c = "7" -> 7 [] c = "8" -> 8 [] c = "9" -> 9
      [] OTHER -> -1

RECURSIVE DecimalValue(_)
DecimalValue(cs) ==
    IF Len(cs) = 0 THEN 0
    ELSE DecimalValue(SubSeq(cs, 1, Len(cs) - 1)) * 10 + DigitValue(cs[Len(cs)])

IntOf(s) ==
    LET cs == Chars(s)
    IN  IF cs = <<>> \/ \E i \in DOMAIN cs : DigitValue(cs[i]) < 0
        THEN -1
        ELSE DecimalValue(cs)

(***************************************************************************)
(* datetime.fromtimestamp(seconds).strftime('%y%m%d'), line 83: the date   *)
(* of the local time, in a zone tz seconds east of UTC, as six digits.     *)
(***************************************************************************)
\* The zones the machine can be in: UTC and UTC+9.
TzOffsets == {0, 32400}

\* The civil date of the day that lies `days` days after 1970-01-01.
CivilFromDays(days) ==
    LET z   == days + 719468
        era == z \div 146097
        doe == z - era * 146097
        yoe == (doe - doe \div 1460 + doe \div 36524 - doe \div 146096) \div 365
        doy == doe - (365 * yoe + yoe \div 4 - yoe \div 100)
        mp  == (5 * doy + 2) \div 153
        d   == doy - (153 * mp + 2) \div 5 + 1
        m   == IF mp < 10 THEN mp + 3 ELSE mp - 9
        y   == yoe + era * 400 + (IF m <= 2 THEN 1 ELSE 0)
    IN  [year |-> y, month |-> m, day |-> d]

\* %y, %m and %d: two digits each.
TwoDigits(n) == IF n < 10 THEN "0" \o ToString(n) ELSE ToString(n)

Strftime(seconds, zone) ==
    LET date == CivilFromDays((seconds + zone) \div 86400)
    IN  TwoDigits(date.year % 100) \o TwoDigits(date.month) \o TwoDigits(date.day)

\* backup_filename, line 84.
BackupFilename(app, zone) ==
    "[" \o app.appid \o "][" \o app.buildid \o "]["
        \o Strftime(IntOf(app.lastupdated), zone)
        \o "][" \o app.manifest \o "]" \o app.installdir \o ".rar"

\* IsBackupCurrent with the comparison of line 162 left out.
IsBackupCurrentNoManifest(bd, app) ==
    IF bd.t # "obj" THEN "error"
    ELSE IF ~ Has(bd.m, app.appid) THEN "false"
    ELSE LET existing == Get(bd.m, app.appid)
         IN  IF DOMAIN existing = {} THEN "false"
             ELSE IF "buildid" \notin DOMAIN existing THEN "error"
             ELSE IF existing.buildid # app.buildid THEN "false"
             ELSE IF "lastupdated" \notin DOMAIN existing THEN "error"
             ELSE IF existing.lastupdated # app.lastupdated THEN "false"
             ELSE "true"

\* IsBackupCurrent taking an identity with no stored entry for current.
IsBackupCurrentAbsentTrue(bd, app) ==
    IF bd.t # "obj" THEN "error"
    ELSE IF ~ Has(bd.m, app.appid) THEN "true"
    ELSE LET existing == Get(bd.m, app.appid)
         IN  IF DOMAIN existing = {} THEN "false"
             ELSE IF "buildid" \notin DOMAIN existing THEN "error"
             ELSE IF existing.buildid # app.buildid THEN "false"
             ELSE IF "lastupdated" \notin DOMAIN existing THEN "error"
             ELSE IF existing.lastupdated # app.lastupdated THEN "false"
             ELSE IF "manifest" \notin DOMAIN existing THEN "error"
             ELSE IF existing.manifest # app.manifest THEN "false"
             ELSE "true"

(***************************************************************************)
(* _is_backup_current, lines 154-162, on the value self.backup_data holds. *)
(* "error" is an exception: AttributeError where the loaded document is no *)
(* dict, KeyError where the stored entry lacks a field the comparison      *)
(* reaches.  An empty entry is falsy (line 157).                           *)
(***************************************************************************)
IsBackupCurrent(bd, app) ==
    IF bd.t # "obj" THEN "error"
    ELSE IF ~ Has(bd.m, app.appid) THEN "false"
    ELSE LET existing == Get(bd.m, app.appid)
         IN  IF DOMAIN existing = {} THEN "false"
             ELSE IF "buildid" \notin DOMAIN existing THEN "error"
             ELSE IF existing.buildid # app.buildid THEN "false"
             ELSE IF "lastupdated" \notin DOMAIN existing THEN "error"
             ELSE IF existing.lastupdated # app.lastupdated THEN "false"
             ELSE IF "manifest" \notin DOMAIN existing THEN "error"
             ELSE IF existing.manifest # app.manifest THEN "false"
             ELSE "true"

\* The fingerprint backup_app stores for a parsed manifest, lines 89-93.
Fingerprint(app) == Entry(app.buildid, app.lastupdated, app.manifest)

(***************************************************************************)
(* _read_backup_json, lines 58-68: "fatal" is the UnicodeDecodeError the   *)
(* except clause of line 66 does not catch.                                *)
(***************************************************************************)
ReadBackupJsonResult(file) ==
    CASE file.kind = "absent"      -> [fatal |-> FALSE, val |-> Obj(EmptyDict)]
      [] file.kind = "json"        -> [fatal |-> FALSE, val |-> file.doc]
      [] file.kind = "truncated"   -> [fatal |-> FALSE, val |-> Obj(EmptyDict)]
      [] file.kind = "undecodable" -> [fatal |-> TRUE,  val |-> Obj(EmptyDict)]

(***************************************************************************)
(* The loop of lines 42-48 of _convert_legacy_csv.                         *)
(***************************************************************************)
\* A row unpacks into four names (line 43) only when it has four fields.
RowsValid(rows) == \A i \in DOMAIN rows : Len(rows[i]) = 4

\* RowsToDict with build id and last-updated unpacked in the wrong order.
RECURSIVE RowsToDictSwapped(_)
RowsToDictSwapped(rows) ==
    IF Len(rows) = 0 THEN EmptyDict
    ELSE LET row == rows[Len(rows)]
         IN  Put(RowsToDictSwapped(SubSeq(rows, 1, Len(rows) - 1)),
                 row[1], Entry(row[3], row[2], row[4]))

RECURSIVE RowsToDict(_)
RowsToDict(rows) ==
    IF Len(rows) = 0 THEN EmptyDict
    ELSE LET row == rows[Len(rows)]
         IN  Put(RowsToDict(SubSeq(rows, 1, Len(rows) - 1)),
                 row[1], Entry(row[2], row[3], row[4]))

(***************************************************************************)
(* backup.json as text.  json.dump (line 73) and json.load (line 65) work  *)
(* on characters: a text is a sequence of characters, a character a string *)
(* of length one, or "U+xxxx" for one that is not printable ASCII.  A      *)
(* value is an object, Obj(members), or a string, Str(characters).         *)
(***************************************************************************)
Quote == "\""

Backslash == "\\"

Space == " "

LineFeed == "U+000a"

Tab == "U+0009"

Soh == "U+0001"

EAcute == "U+00e9"

Str(cs) == [t |-> "str", s |-> cs]

\* EscapeChar leaving the quotation mark as it is.
EscapeCharQuoteRaw(c) ==
    CASE c = Backslash -> <<Backslash, Backslash>>
      [] c = LineFeed  -> <<Backslash, "n">>
      [] c = Tab       -> <<Backslash, "t">>
      [] c = Soh       -> <<Backslash, "u", "0", "0", "0", "1">>
      [] OTHER         -> <<c>>

\* json.dump with ensure_ascii=False: the quotation mark, the backslash and the
\* control characters are escaped, every other character is written as it is.
EscapeChar(c) ==
    CASE c = Quote     -> <<Backslash, Quote>>
      [] c = Backslash -> <<Backslash, Backslash>>
      [] c = LineFeed  -> <<Backslash, "n">>
      [] c = Tab       -> <<Backslash, "t">>
      [] c = Soh       -> <<Backslash, "u", "0", "0", "0", "1">>
      [] OTHER         -> <<c>>

RECURSIVE EscapeString(_)
EscapeString(cs) ==
    IF Len(cs) = 0 THEN <<>>
    ELSE EscapeChar(cs[1]) \o EscapeString(Tail(cs))

EncodeString(cs) == <<Quote>> \o EscapeString(cs) \o <<Quote>>

\* The indentation of indent=2 at a nesting level.
Indent(level) == [i \in 1..(2 * level) |-> Space]

\* json.dump(value, f, indent=2, ensure_ascii=False), line 73.
RECURSIVE Dumps(_, _)
RECURSIVE DumpMembers(_, _)
Dumps(val, level) ==
    IF val.t = "str" THEN EncodeString(val.s)
    ELSE IF Len(val.m) = 0 THEN <<"{", "}">>
    ELSE <<"{">> \o DumpMembers(val.m, level + 1)
                \o <<LineFeed>> \o Indent(level) \o <<"}">>

DumpMembers(m, level) ==
    IF Len(m) = 0 THEN <<>>
    ELSE LET n == Len(m)
         IN  DumpMembers(SubSeq(m, 1, n - 1), level)
                \o (IF n > 1 THEN <<",">> ELSE <<>>)
                \o <<LineFeed>> \o Indent(level)
                \o EncodeString(m[n].k) \o <<":", Space>> \o Dumps(m[n].v, level)

\* What the decoder returns: ok, the value read and the place after it.
NoParse == [ok |-> FALSE, val |-> Str(<<>>), pos |-> 0]

Whitespace == {Space, LineFeed, Tab, "U+000d"}

HexDigits == {"0", "1", "2", "3", "4", "5", "6", "7", "8", "9",
              "a", "b", "c", "d", "e", "f"}

\* The character a \uxxxx escape stands for.
CodePointChar(h) ==
    CASE h = "U+0022" -> Quote
      [] h = "U+005c" -> Backslash
      [] h = "U+0020" -> Space
      [] OTHER        -> h

RECURSIVE SkipWhitespace(_, _)
SkipWhitespace(text, p) ==
    IF p <= Len(text) /\ text[p] \in Whitespace
    THEN SkipWhitespace(text, p + 1)
    ELSE p

\* The scanner of strings, from the place after the opening quotation mark:
\* it ends at the first quotation mark that is not escaped, and fails on the
\* end of the text, on an escape it does not know and on a control character.
RECURSIVE ScanString(_, _, _)
ScanString(text, p, acc) ==
    IF p > Len(text) THEN NoParse
    ELSE IF text[p] = Quote THEN [ok |-> TRUE, val |-> Str(acc), pos |-> p + 1]
    ELSE IF text[p] \in {LineFeed, Tab, Soh, "U+000d"} THEN NoParse
    ELSE IF text[p] # Backslash THEN ScanString(text, p + 1, Append(acc, text[p]))
    ELSE IF p + 1 > Len(text) THEN NoParse
    ELSE LET e == text[p + 1]
         IN  IF e \in {Quote, Backslash, "/"}
             THEN ScanString(text, p + 2, Append(acc, e))
             ELSE IF e = "n" THEN ScanString(text, p + 2, Append(acc, LineFeed))
             ELSE IF e = "t" THEN ScanString(text, p + 2, Append(acc, Tab))
             ELSE IF e = "r" THEN ScanString(text, p + 2, Append(acc, "U+000d"))
             ELSE IF e = "b" THEN ScanString(text, p + 2, Append(acc, "U+0008"))
             ELSE IF e = "f" THEN ScanString(text, p + 2, Append(acc, "U+000c"))
             ELSE IF e = "u" /\ p + 5 <= Len(text)
                       /\ \A i \in 2..5 : text[p + i] \in HexDigits
             THEN ScanString(text, p + 6,
                     Append(acc, CodePointChar("U+" \o text[p + 2] \o text[p + 3]
                                                  \o text[p + 4] \o text[p + 5])))
             ELSE NoParse

\* The decoder of values, from the first character of the value, and of the
\* members of an object, from the first character of a member.  Of the values
\* of JSON only objects and strings are read: a state mapping has no others.
RECURSIVE ParseValue(_, _)
RECURSIVE ParseMembers(_, _, _)
ParseValue(text, p) ==
    IF p > Len(text) THEN NoParse
    ELSE IF text[p] = Quote THEN ScanString(text, p + 1, <<>>)
    ELSE IF text[p] # "{" THEN NoParse
    ELSE LET q == SkipWhitespace(text, p + 1)
         IN  IF q > Len(text) THEN NoParse
             ELSE IF text[q] = "}"
             THEN [ok |-> TRUE, val |-> Obj(EmptyDict), pos |-> q + 1]
             ELSE ParseMembers(text, q, EmptyDict)

ParseMembers(text, p, acc) ==
    IF p > Len(text) \/ text[p] # Quote THEN NoParse
    ELSE LET key == ScanString(text, p + 1, <<>>)
             c   == SkipWhitespace(text, key.pos)
         IN  IF ~ key.ok \/ c > Len(text) \/ text[c] # ":" THEN NoParse
             ELSE LET val == ParseValue(text, SkipWhitespace(text, c + 1))
                      e   == SkipWhitespace(text, val.pos)
                      got == Put(acc, key.val.s, val.val)
                  IN  IF ~ val.ok \/ e > Len(text) THEN NoParse
                      ELSE IF text[e] = "}"
                      THEN [ok |-> TRUE, val |-> Obj(got), pos |-> e + 1]
                      ELSE IF text[e] = ","
                      THEN ParseMembers(text, SkipWhitespace(text, e + 1), got)
                      ELSE NoParse

\* json.load(f), line 65: one value, with nothing but whitespace after it.
Loads(text) ==
    LET r == ParseValue(text, SkipWhitespace(text, 1))
    IN  IF r.ok /\ SkipWhitespace(text, r.pos) > Len(text) THEN r ELSE NoParse

\* backup.json holding a text.
TextFile(text) == [kind |-> "text", text |-> text]

\* _read_backup_json, lines 58-68, on a file that holds a text: JSONDecodeError
\* gives the empty mapping.
ReadBackupJsonText(file) ==
    IF Loads(file.text).ok THEN Loads(file.text).val ELSE Obj(EmptyDict)

(***************************************************************************)
(* State.                                                                  *)
(***************************************************************************)
VARIABLES
    csvFile,      \* <backup_dir>/backup.csv
    csvOld,       \* <backup_dir>/backup.csv.old
    jsonFile,     \* <backup_dir>/backup.json
    acfFiles,     \* what glob("appmanifest_*.acf") yields, in its order
    pc,           \* where the process is
    backup_data,  \* self.backup_data
    idx,          \* the place in acfFiles the loop of run_backup is at
    report,       \* per manifest, the message printed for it ("" so far none)
    invoked,      \* per manifest, the results of the archiver runs made for it
    migMsg,       \* what _convert_legacy_csv printed: "", "converted", "error"
    fatal,        \* why main printed "Fatal error" ("" when it did not)
    exitCode,     \* -1 while the process runs, then its exit code
    second,       \* whether this is the second run of the program
    pre,          \* the three files as they were when this process started
    committed,    \* the store loaded at start plus every entry reported backed up
    prev,         \* how the previous run ended
    tz            \* the machine's local time zone: seconds east of UTC

vars == <<csvFile, csvOld, jsonFile, acfFiles, pc, backup_data, idx, report,
          invoked, migMsg, fatal, exitCode, second, pre, committed, prev, tz>>

disk == <<csvFile, csvOld, jsonFile>>

\* The terminal state a printed message stands for.
Outcome(msg) ==
    CASE msg = ""        -> "none"
      [] msg = "current" -> "Skipped"
      [] msg = "success" -> "BackedUp"
      [] OTHER           -> "Failed"

\* What read_text and _parse_acf_content make of each file (lines 119-120).
Parsed == [name \in AcfNames \cup OddAcfNames |-> ParseAcfContent(FileContent(name))]

\* The parsed manifest of the i-th file of the listing.
AppData(i) == Parsed[acfFiles[i]]

\* The destination the archiver is given for the i-th file (lines 85 and 87),
\* without the backup directory it lies in.
Destination(i) == BackupFilename(AppData(i), tz)

(***************************************************************************)
(* The initial file system.                                                *)
(***************************************************************************)
Stored(id, fp) == JsonDoc(Obj(<<[k |-> id, v |-> fp]>>))

\* A document whose entry for 480 lacks two of the three fields.
BadRecord == JsonDoc(Obj(<<[k |-> "480", v |-> [buildid |-> "100"]]>>))

JsonPool ==
    {NoJson, Stored("480", FpX), Stored("480", FpT), Stored("480", FpM),
     Truncated, Undecodable, JsonDoc(Arr), BadRecord}

LegacyRow480 == <<"480", "99", "1690000000", "554">>
LegacyRow570 == <<"570", "199", "1690000000", "776">>

CsvPool ==
    {CsvRows(<<LegacyRow570, LegacyRow480>>),
     CsvRows(<<LegacyRow480, <<"570", "199", "1690000000">>>>),
     CsvRows(<<LegacyRow570, <<"570", "200", "1700086400", "777">>>>)}

\* The sequences without repetition of at most n of the files.
RECURSIVE Listings(_)
Listings(n) ==
    IF n = 0 THEN {<<>>}
    ELSE LET shorter == Listings(n - 1)
         IN  shorter \cup
             {Append(l, f) : <<l, f>> \in
                {<<l, f>> \in shorter \X AcfNames : \A i \in DOMAIN l : l[i] # f}}

NoRun == [completed |-> FALSE, clean |-> FALSE, disk |-> NoJson]

Blank(n, x) == [i \in 1..n |-> x]

Init ==
    /\ \/ csvFile = NoCsv /\ csvOld = NoCsv /\ jsonFile \in JsonPool
       \/ /\ csvFile \in CsvPool
          /\ csvOld \in {NoCsv, CsvRows(<<LegacyRow570>>)}
          /\ jsonFile \in {NoJson, Stored("480", FpX)}
    /\ acfFiles \in Listings(MaxManifests)
    /\ pc = "main"
    /\ backup_data = Obj(EmptyDict)
    /\ idx = 0
    /\ report = Blank(Len(acfFiles), "")
    /\ invoked = Blank(Len(acfFiles), <<>>)
    /\ migMsg = ""
    /\ fatal = ""
    /\ exitCode = -1
    /\ second = FALSE
    /\ pre = disk
    /\ committed = EmptyDict
    /\ prev = NoRun
    /\ tz \in TzOffsets

(***************************************************************************)
(* main and SteamBackup.__init__.                                          *)
(***************************************************************************)
\* Fatal with the exit(1) of line 201 left out.
FatalExitsZero(why) ==
    /\ fatal' = why
    /\ exitCode' = 0
    /\ pc' = "exited"

\* main's except clause, lines 199-201.
Fatal(why) ==
    /\ fatal' = why
    /\ exitCode' = 1
    /\ pc' = "exited"

\* load_config, lines 164-179, called at line 184.
LoadConfig ==
    /\ pc = "main"
    /\ \E cfg \in {"ok", "notfound", "badjson", "nokey"} :
          IF cfg = "ok"
          THEN pc' = "validate" /\ UNCHANGED <<fatal, exitCode>>
          ELSE Fatal("config")
    /\ UNCHANGED <<disk, acfFiles, backup_data, idx, report, invoked, migMsg,
                   second, pre, committed, prev, tz>>

\* _validate_paths, lines 23-30.
ValidatePaths ==
    /\ pc = "validate"
    /\ \E library, winrar \in BOOLEAN :
          IF ~ library THEN Fatal("library")
          ELSE IF ~ winrar THEN Fatal("winrar")
          ELSE pc' = "convert" /\ UNCHANGED <<fatal, exitCode>>
    /\ UNCHANGED <<disk, acfFiles, backup_data, idx, report, invoked, migMsg,
                   second, pre, committed, prev, tz>>

\* _convert_legacy_csv, lines 34-50: up to the opening of backup.json for
\* writing, which empties it.
ConvertLegacyCsv ==
    /\ pc = "convert"
    /\ \/ /\ csvFile.kind = "absent"
          /\ pc' = "read"
          /\ UNCHANGED <<jsonFile, migMsg>>
       \/ /\ csvFile.kind = "rows"
          /\ ~ RowsValid(csvFile.rows)
          /\ migMsg' = "error"
          /\ pc' = "read"
          /\ UNCHANGED jsonFile
       \/ /\ csvFile.kind = "rows"
          /\ RowsValid(csvFile.rows)
          /\ \E opened \in BOOLEAN :
                IF opened
                THEN jsonFile' = Truncated /\ pc' = "conv_dump" /\ UNCHANGED migMsg
                ELSE migMsg' = "error" /\ pc' = "read" /\ UNCHANGED jsonFile
    /\ UNCHANGED <<csvFile, csvOld, acfFiles, backup_data, idx, report, invoked,
                   fatal, exitCode, second, pre, committed, prev, tz>>

\* _convert_legacy_csv, line 51: json.dump into the opened file.
ConvertDump ==
    /\ pc = "conv_dump"
    /\ \E written \in BOOLEAN :
          IF written
          THEN /\ jsonFile' = JsonDoc(Obj(RowsToDict(csvFile.rows)))
               /\ pc' = "conv_rename"
               /\ UNCHANGED migMsg
          ELSE migMsg' = "error" /\ pc' = "read" /\ UNCHANGED jsonFile
    /\ UNCHANGED <<csvFile, csvOld, acfFiles, backup_data, idx, report, invoked,
                   fatal, exitCode, second, pre, committed, prev, tz>>

\* _convert_legacy_csv, lines 53-56: the rename to backup.csv.old.
ConvertRename ==
    /\ pc = "conv_rename"
    /\ \E renamed \in BOOLEAN :
          IF renamed
          THEN csvOld' = csvFile /\ csvFile' = NoCsv /\ migMsg' = "converted"
          ELSE migMsg' = "error" /\ UNCHANGED <<csvFile, csvOld>>
    /\ pc' = "read"
    /\ UNCHANGED <<jsonFile, acfFiles, backup_data, idx, report, invoked,
                   fatal, exitCode, second, pre, committed, prev, tz>>

\* self.backup_data = self._read_backup_json(), line 21.
ReadBackupJson ==
    /\ pc = "read"
    /\ LET r == ReadBackupJsonResult(jsonFile)
       IN  IF r.fatal
           THEN Fatal("state") /\ UNCHANGED <<backup_data, idx, committed>>
           ELSE /\ backup_data' = r.val
                /\ committed' = IF r.val.t = "obj" THEN r.val.m ELSE EmptyDict
                /\ idx' = 1
                /\ pc' = "loop"
                /\ UNCHANGED <<fatal, exitCode>>
    /\ UNCHANGED <<disk, acfFiles, report, invoked, migMsg, second, pre, prev, tz>>

(***************************************************************************)
(* run_backup: one manifest after the other.                               *)
(***************************************************************************)
\* Done with the loop of line 113 staying at the same file.
DoneStays(msg) ==
    /\ report' = [report EXCEPT ![idx] = msg]
    /\ idx' = idx
    /\ pc' = "loop"

\* The message for the manifest at hand is printed and the loop goes on.
Done(msg) ==
    /\ report' = [report EXCEPT ![idx] = msg]
    /\ idx' = idx + 1
    /\ pc' = "loop"

\* ProcessAcfFile going on to backup_app whatever the detector says.
ProcessAcfFileIgnoresDetector ==
    /\ pc = "loop"
    /\ idx <= Len(acfFiles)
    /\ LET app == AppData(idx)
       IN  IF app.err # "" THEN Done("parse")
           ELSE IF IsBackupCurrent(backup_data, app) = "error" THEN Done("state")
           ELSE pc' = "backup" /\ UNCHANGED <<report, idx>>
    /\ UNCHANGED <<disk, acfFiles, backup_data, invoked, migMsg, fatal, exitCode,
                   second, pre, committed, prev, tz>>

\* _process_acf_file, lines 118-124 and 127-128: read, parse, detect.
ProcessAcfFile ==
    /\ pc = "loop"
    /\ idx <= Len(acfFiles)
    /\ LET app == AppData(idx)
       IN  IF app.err # "" THEN Done("parse")
           ELSE IF IsBackupCurrent(backup_data, app) = "error" THEN Done("state")
           ELSE IF IsBackupCurrent(backup_data, app) = "true" THEN Done("current")
           ELSE pc' = "backup" /\ UNCHANGED <<report, idx>>
    /\ UNCHANGED <<disk, acfFiles, backup_data, invoked, migMsg, fatal, exitCode,
                   second, pre, committed, prev, tz>>

\* BackupApp with the check of lines 79-81 made after the archiver has run.
BackupAppArchivesFirst ==
    /\ pc = "backup"
    /\ \E installed \in BOOLEAN :
          IF ~ installed
          THEN invoked' = [invoked EXCEPT ![idx] = Append(@, "ok")] /\ Done("nodir")
          ELSE /\ UNCHANGED invoked
               /\ IF IntOf(AppData(idx).lastupdated) < 0 THEN Done("date")
                  ELSE pc' = "compress" /\ UNCHANGED <<report, idx>>
    /\ UNCHANGED <<disk, acfFiles, backup_data, migMsg, fatal, exitCode,
                   second, pre, committed, prev, tz>>

\* backup_app, lines 78-85: the install directory and the archive's name.
BackupApp ==
    /\ pc = "backup"
    /\ \E installed \in BOOLEAN :
          IF ~ installed THEN Done("nodir")
          ELSE IF IntOf(AppData(idx).lastupdated) < 0 THEN Done("date")
          ELSE pc' = "compress" /\ UNCHANGED <<report, idx>>
    /\ UNCHANGED <<disk, acfFiles, backup_data, invoked, migMsg, fatal, exitCode,
                   second, pre, committed, prev, tz>>

\* CompressFiles with the raise of line 109 left out: a non-zero exit is
\* printed and backup_app goes on to commit.
CompressFilesSwallows ==
    /\ pc = "compress"
    /\ \E result \in {"ok", "nonzero", "oserror"} :
          /\ invoked' = [invoked EXCEPT ![idx] = Append(@, result)]
          /\ IF result \in {"ok", "nonzero"}
             THEN pc' = "commit" /\ UNCHANGED <<report, idx>>
             ELSE Done("oserror")
    /\ UNCHANGED <<disk, acfFiles, backup_data, migMsg, fatal, exitCode,
                   second, pre, committed, prev, tz>>

\* _compress_files, lines 98-109, called at line 87: the archiver exits 0,
\* exits non-zero (CalledProcessError) or cannot be started (OSError).
CompressFiles ==
    /\ pc = "compress"
    /\ \E result \in {"ok", "nonzero", "oserror"} :
          /\ invoked' = [invoked EXCEPT ![idx] = Append(@, result)]
          /\ IF result = "ok"
             THEN pc' = "commit" /\ UNCHANGED <<report, idx>>
             ELSE Done(IF result = "nonzero" THEN "archive" ELSE "oserror")
    /\ UNCHANGED <<disk, acfFiles, backup_data, migMsg, fatal, exitCode,
                   second, pre, committed, prev, tz>>

\* backup_app, lines 89-94 and line 72: the entry is put into
\* self.backup_data and backup.json is opened for writing, which empties it.
CommitOpen ==
    /\ pc = "commit"
    /\ backup_data' =
          Obj(Put(backup_data.m, AppData(idx).appid, Fingerprint(AppData(idx))))
    /\ \E opened \in BOOLEAN :
          IF opened
          THEN jsonFile' = Truncated /\ pc' = "dump" /\ UNCHANGED <<report, idx>>
          ELSE Done("write") /\ UNCHANGED jsonFile
    /\ UNCHANGED <<csvFile, csvOld, acfFiles, invoked, migMsg, fatal, exitCode,
                   second, pre, committed, prev, tz>>

\* WriteDump writing the new entry alone instead of the whole mapping.
WriteDumpOnlyNew ==
    /\ pc = "dump"
    /\ \E written \in BOOLEAN :
          IF written
          THEN /\ jsonFile' = Stored(AppData(idx).appid, Fingerprint(AppData(idx)))
               /\ committed' =
                     Put(committed, AppData(idx).appid, Fingerprint(AppData(idx)))
               /\ Done("success")
          ELSE Done("write") /\ UNCHANGED <<jsonFile, committed>>
    /\ UNCHANGED <<csvFile, csvOld, acfFiles, backup_data, invoked, migMsg, fatal,
                   exitCode, second, pre, prev, tz>>

\* _write_backup_json, line 73, and line 96.
WriteDump ==
    /\ pc = "dump"
    /\ \E written \in BOOLEAN :
          IF written
          THEN /\ jsonFile' = JsonDoc(backup_data)
               /\ committed' =
                     Put(committed, AppData(idx).appid, Fingerprint(AppData(idx)))
               /\ Done("success")
          ELSE Done("write") /\ UNCHANGED <<jsonFile, committed>>
    /\ UNCHANGED <<csvFile, csvOld, acfFiles, backup_data, invoked, migMsg, fatal,
                   exitCode, second, pre, prev, tz>>

\* run_backup and main return, lines 113 and 197.
Finish ==
    /\ pc = "loop"
    /\ idx > Len(acfFiles)
    /\ pc' = "exited"
    /\ exitCode' = 0
    /\ UNCHANGED <<disk, acfFiles, backup_data, idx, report, invoked, migMsg,
                   fatal, second, pre, committed, prev, tz>>

(***************************************************************************)
(* The process and its environment.                                        *)
(***************************************************************************)
\* What a process has in memory when it starts.
FreshProcess ==
    /\ backup_data' = Obj(EmptyDict)
    /\ idx' = 0
    /\ report' = Blank(Len(acfFiles), "")
    /\ invoked' = Blank(Len(acfFiles), <<>>)
    /\ migMsg' = ""
    /\ fatal' = ""

\* The process is killed (or the machine stops) wherever it is: the files stay
\* as they are, what the process held in memory is gone.
Crash ==
    /\ pc # "exited"
    /\ pc' = "exited"
    /\ exitCode' = 137
    /\ FreshProcess
    /\ UNCHANGED <<disk, acfFiles, second, pre, committed, prev, tz>>

\* The program is started again, over the same manifests.
Boot ==
    /\ pc = "exited"
    /\ ~ second
    /\ second' = TRUE
    /\ pc' = "main"
    /\ exitCode' = -1
    /\ FreshProcess
    /\ pre' = disk
    /\ committed' = EmptyDict
    /\ prev' = [completed |-> exitCode = 0,
                clean |-> \A i \in DOMAIN report : Outcome(report[i]) # "Failed",
                disk |-> jsonFile]
    /\ UNCHANGED <<disk, acfFiles, tz>>

Next ==
    \/ LoadConfig
    \/ ValidatePaths
    \/ ConvertLegacyCsv
    \/ ConvertDump
    \/ ConvertRename
    \/ ReadBackupJson
    \/ ProcessAcfFile
    \/ BackupApp
    \/ CompressFiles
    \/ CommitOpen
    \/ WriteDump
    \/ Finish
    \/ Crash
    \/ Boot

Spec == Init /\ [][Next]_vars

\* A step of the program itself, as opposed to one of its environment (the
\* process being killed, the program being started again).
Step ==
    \/ LoadConfig
    \/ ValidatePaths
    \/ ConvertLegacyCsv
    \/ ConvertDump
    \/ ConvertRename
    \/ ReadBackupJson
    \/ ProcessAcfFile
    \/ BackupApp
    \/ CompressFiles
    \/ CommitOpen
    \/ WriteDump
    \/ Finish

\* The program under the assumption that a running process keeps running: every
\* call it makes returns, the archiver's among them (subprocess.run, line 101).
LiveSpec == Init /\ [][Next]_vars /\ WF_vars(Step)

(***************************************************************************)
(* persist() and load() on the text of backup.json: a process writes the   *)
(* mapping it holds (_write_backup_json) and the next one reads the file   *)
(* (_read_backup_json).                                                    *)
(***************************************************************************)
\* The strings the fields and the identities of the mappings are drawn from:
\* digits, nothing, and characters json.dump escapes or writes as they are.
RtStrings ==
    << <<"1", "0", "0">>,
       <<>>,
       <<"a", Quote, "b">>,
       <<"c", ":", Backslash, "d", Backslash>>,
       <<LineFeed, Soh, Tab, "{">>,
       <<EAcute, ",", Space, "}", "/">> >>

RtKeys == {<<"4", "8", "0">>, <<"5", "7", "0">>, <<"k", Quote, Backslash, "u">>}

\* The record of lines 89-93 with the i-th and the next two strings as fields.
RtEntry(i) ==
    LET at(j) == Str(RtStrings[((i + j - 1) % Len(RtStrings)) + 1])
    IN  Obj(<< [k |-> <<"b", "u", "i", "l", "d", "i", "d">>, v |-> at(0)],
               [k |-> <<"l", "a", "s", "t", "u", "p", "d", "a", "t", "e", "d">>, v |-> at(1)],
               [k |-> <<"m", "a", "n", "i", "f", "e", "s", "t">>, v |-> at(2)] >>)

\* The mappings of at most n identities to such records.
RECURSIVE Mappings(_)
Mappings(n) ==
    IF n = 0 THEN {EmptyDict}
    ELSE LET shorter == Mappings(n - 1)
         IN  shorter \cup
             {Append(t[1], [k |-> t[2], v |-> RtEntry(t[3])]) : t \in
                {t \in shorter \X RtKeys \X DOMAIN RtStrings : ~ Has(t[1], t[2])}}

RoundTripInit ==
    /\ backup_data \in {Obj(m) : m \in Mappings(MaxEntries)}
    /\ jsonFile \in {NoJson, TextFile(<<"{", "}">>),
                     TextFile(Dumps(Obj(<<[k |-> <<"9">>, v |-> RtEntry(1)]>>), 0))}
    /\ pc = "persist"
    /\ csvFile = NoCsv /\ csvOld = NoCsv
    /\ acfFiles = <<>>
    /\ idx = 0
    /\ report = <<>>
    /\ invoked = <<>>
    /\ migMsg = ""
    /\ fatal = ""
    /\ exitCode = -1
    /\ second = FALSE
    /\ pre = disk
    /\ committed = EmptyDict
    /\ prev = NoRun
    /\ tz = 0

\* _write_backup_json, lines 70-73, as the last thing a process does: the file
\* is opened, which empties it, and the mapping is dumped into it.
WriteBackupJson ==
    /\ pc = "persist"
    /\ jsonFile' = TextFile(Dumps(backup_data, 0))
    /\ committed' = backup_data.m
    /\ backup_data' = Obj(EmptyDict)
    /\ pc' = "load"
    /\ UNCHANGED <<csvFile, csvOld, acfFiles, idx, report, invoked, migMsg, fatal,
                   exitCode, second, pre, prev, tz>>

\* self.backup_data = self._read_backup_json(), line 21, in the next process.
LoadBackupJson ==
    /\ pc = "load"
    /\ backup_data' = ReadBackupJsonText(jsonFile)
    /\ pc' = "loaded"
    /\ UNCHANGED <<disk, acfFiles, idx, report, invoked, migMsg, fatal, exitCode,
                   second, pre, committed, prev, tz>>

RoundTripNext == WriteBackupJson \/ LoadBackupJson

RoundTripSpec == RoundTripInit /\ [][RoundTripNext]_vars

(***************************************************************************)
(* The program over a library that holds one manifest, of any shape.       *)
(***************************************************************************)
ParserInit ==
    /\ \/ csvFile = NoCsv /\ jsonFile \in {NoJson, Stored("480", FpX)}
       \/ csvFile = CsvRows(<<LegacyRow570, LegacyRow480>>) /\ jsonFile = NoJson
    /\ csvOld = NoCsv
    /\ acfFiles \in {<<name>> : name \in AcfNames \cup OddAcfNames}
    /\ pc = "main"
    /\ backup_data = Obj(EmptyDict)
    /\ idx = 0
    /\ report = Blank(Len(acfFiles), "")
    /\ invoked = Blank(Len(acfFiles), <<>>)
    /\ migMsg = ""
    /\ fatal = ""
    /\ exitCode = -1
    /\ second = FALSE
    /\ pre = disk
    /\ committed = EmptyDict
    /\ prev = NoRun
    /\ tz \in TzOffsets

ParserSpec == ParserInit /\ [][Next]_vars

(***************************************************************************)
(* Properties.                                                             *)
(***************************************************************************)
\* The archiver run for the i-th manifest failed.
ArchiverFailed(i) == \E j \in DOMAIN invoked[i] : invoked[i][j] # "ok"

\* C1 (no false commit): a step of the processing of a manifest after which the
\* archiver has failed for it (a non-zero exit, or the archiver could not be
\* started) leaves the manifest Failed and changes neither self.backup_data nor
\* backup.json, and the store still says the manifest is not current.
C1_NoFalseCommit ==
    [][\A i \in DOMAIN invoked :
          (idx = i /\ ArchiverFailed(i)') =>
             /\ Outcome(report'[i]) = "Failed"
             /\ backup_data' = backup_data
             /\ jsonFile' = jsonFile
             /\ IsBackupCurrent(backup_data', AppData(i)) = "false"]_vars

\* C1's case: a manifest whose identity has a stored entry ended Failed on a
\* non-zero exit of the archiver, and another on a failed start.
C1_Witness ==
    /\ \E i \in DOMAIN report :
          /\ report[i] = "archive"
          /\ invoked[i] = <<"nonzero">>
          /\ jsonFile.kind = "json"
          /\ Has(backup_data.m, AppData(i).appid)
    /\ \E i \in DOMAIN report : report[i] = "oserror"

\* An entry with the three fields of a fingerprint.
WellFormed(e) == DOMAIN e = {"buildid", "lastupdated", "manifest"}

\* A state file load() reads back as the mapping it was written from: absent,
\* or a document mapping identities to fingerprints.
Loadable(file) ==
    \/ file.kind = "absent"
    \/ /\ file.kind = "json"
       /\ file.doc.t = "obj"
       /\ \A i \in DOMAIN file.doc.m : WellFormed(file.doc.m[i].v)

\* The legacy file plays no part: it was absent when the program first ran.
NoLegacy == csvFile.kind = "absent" /\ csvOld.kind = "absent"

\* C2 (crash consistency): when a process that started from a loadable state
\* file has ended, however it ended, what load() reads from backup.json has an
\* entry for every identity that was loaded at start or reported backed up.
C2_CrashConsistent ==
    (pc = "exited" /\ NoLegacy /\ Loadable(pre[3])) =>
       Keys(committed) \subseteq Keys(ReadBackupJsonResult(jsonFile).val.m)

\* C3 (all-or-nothing migration): when _convert_legacy_csv has returned after
\* finding a legacy file, either backup.json holds the legacy entries and the
\* legacy file is gone under its name, or the migration is reported failed and
\* backup.json and the legacy file are as they were.
C3_AllOrNothing ==
    (pc = "read" /\ pre[1].kind = "rows") =>
       \/ /\ migMsg = "converted"
          /\ csvFile.kind = "absent"
          /\ csvOld = pre[1]
          /\ jsonFile.kind = "json"
          /\ Keys(jsonFile.doc.m) = {pre[1].rows[i][1] : i \in DOMAIN pre[1].rows}
       \/ /\ migMsg = "error"
          /\ disk = pre

\* C4 (idempotence): a second complete run over the same manifests, after a
\* first complete run, no manifest having failed in either, backs nothing up
\* and leaves backup.json as the first run left it.
C4_Idempotent ==
    (second /\ pc = "exited" /\ exitCode = 0 /\ NoLegacy
       /\ prev.completed /\ prev.clean
       /\ \A i \in DOMAIN report : Outcome(report[i]) # "Failed") =>
       /\ \A i \in DOMAIN report : Outcome(report[i]) # "BackedUp"
       /\ jsonFile = prev.disk

\* The identities the state file held when this process started.
PreStore == pre[3].doc.m

\* C8 (migration loses no data): once __init__ has migrated with success from a
\* legacy file found beside a structured file, and has loaded, every
\* identity the structured file mapped to a fingerprint when the process started
\* is still tracked in self.backup_data.
C8_MigrationKeepsEntries ==
    (pc = "loop" /\ idx = 1 /\ migMsg = "converted"
       /\ pre[3].kind = "json" /\ Loadable(pre[3])) =>
       \A id \in Keys(PreStore) : Has(backup_data.m, id)

\* A state file that is present and is not a mapping of identities to
\* fingerprints.
Corrupt(file) == file.kind # "absent" /\ ~ Loadable(file)

\* C9 (degraded load): a process that started from a corrupt state file does
\* not end fatally on it, and no manifest fails on the loaded state.
C9_DegradedLoad ==
    (NoLegacy /\ Corrupt(pre[3])) =>
       /\ fatal # "state"
       /\ \A i \in DOMAIN report : report[i] # "state"

\* C6 (failure isolation): a manifest is Skipped only if the store without the
\* entries of the failed manifests says it is current, and BackedUp only if
\* that store says it is not; a process that is not killed and reaches the end
\* of the listing exits 0.
C6_FailureIsolation ==
    [][/\ \A i \in DOMAIN report :
            (idx = i /\ report[i] = "" /\ Outcome(report'[i]) \in {"Skipped", "BackedUp"}) =>
               (Outcome(report'[i]) = "Skipped"
                  <=> IsBackupCurrent(Obj(committed), AppData(i)) = "true")
       /\ (pc = "loop" /\ pc' = "exited" /\ exitCode' # 137) => exitCode' = 0]_vars

\* The entry self.backup_data holds for the identity of the i-th manifest.
StoredFor(i) == Get(backup_data.m, AppData(i).appid)

\* The i-th manifest parses and the store holds a fingerprint for its identity.
HasStoredFp(i) ==
    /\ AppData(i).err = ""
    /\ backup_data.t = "obj"
    /\ Has(backup_data.m, AppData(i).appid)
    /\ WellFormed(StoredFor(i))

\* The fields in which the stored fingerprint differs from the fresh one.
DiffFields(i) ==
    {f \in {"buildid", "lastupdated", "manifest"} :
        StoredFor(i)[f] # Fingerprint(AppData(i))[f]}

\* C5 as claimed (change triggers exactly one backup).  For a manifest whose
\* identity has a stored fingerprint: with all three fields equal the manifest
\* is Skipped, the archiver is not run and the store is not modified; with one
\* field different it goes on to backup_app, and once the archiver has
\* succeeded, at its one run, the stored fingerprint becomes the fresh one, the
\* complete store is written and the manifest is BackedUp.
C5_ChangeTriggersBackup ==
    [][\A i \in DOMAIN report :
          (idx = i /\ pc' # "exited") =>
             /\ (pc = "loop" /\ HasStoredFp(i) /\ DiffFields(i) = {}) =>
                   /\ report'[i] = "current"
                   /\ invoked'[i] = <<>>
                   /\ backup_data' = backup_data
                   /\ jsonFile' = jsonFile
             /\ (pc = "loop" /\ HasStoredFp(i) /\ Cardinality(DiffFields(i)) = 1) =>
                   pc' = "backup" /\ report'[i] = ""
             /\ (pc = "commit" /\ HasStoredFp(i) /\ Cardinality(DiffFields(i)) = 1) =>
                   /\ invoked[i] = <<"ok">>
                   /\ Get(backup_data'.m, AppData(i).appid) = Fingerprint(AppData(i))
                   /\ pc' = "dump"
             /\ pc = "dump" =>
                   /\ report'[i] = "success"
                   /\ jsonFile' = JsonDoc(backup_data')]_vars

\* C5 as amended: the same, where the manifest is BackedUp if the write of the
\* state file succeeds and Failed, on the write, if it does not.
C5_ChangeTriggersBackupIfWritten ==
    [][\A i \in DOMAIN report :
          (idx = i /\ pc' # "exited") =>
             /\ (pc = "loop" /\ HasStoredFp(i) /\ DiffFields(i) = {}) =>
                   /\ report'[i] = "current"
                   /\ invoked'[i] = <<>>
                   /\ backup_data' = backup_data
                   /\ jsonFile' = jsonFile
             /\ (pc = "loop" /\ HasStoredFp(i) /\ Cardinality(DiffFields(i)) = 1) =>
                   pc' = "backup" /\ report'[i] = ""
             /\ (pc = "commit" /\ HasStoredFp(i) /\ Cardinality(DiffFields(i)) = 1) =>
                   /\ invoked[i] = <<"ok">>
                   /\ Get(backup_data'.m, AppData(i).appid) = Fingerprint(AppData(i))
                   /\ pc' = "dump" \/ report'[i] = "write"
             /\ pc = "dump" =>
                   /\ report'[i] \in {"success", "write"}
                   /\ report'[i] = "success" =>
                         /\ jsonFile' = JsonDoc(backup_data')
                         /\ invoked'[i] = <<"ok">>
                         /\ Get(backup_data'.m, AppData(i).appid)
                               = Fingerprint(AppData(i))]_vars

\* C5's case: the state file held, for 480, a fingerprint that differs from the
\* manifest's in the manifest id alone, and the manifest is now BackedUp with
\* the fresh fingerprint stored.
C5_Witness ==
    /\ pre[3] = Stored("480", FpM)
    /\ \E i \in DOMAIN report :
          /\ acfFiles[i] = "appmanifest_480.acf"
          /\ report[i] = "success"
          /\ jsonFile = Stored("480", FpX)

\* C7 (migration correctness).  After a migration that reports success the
\* structured file holds exactly the identities of the legacy rows, each with
\* the three fields of its last row, one entry per row when the rows have
\* distinct identities; the legacy file is gone under its name and kept under
\* the other, so that no migration runs while it is absent; and load() returns
\* that mapping.  After a migration that met a malformed row the three files
\* are as they were and the failure is reported.
C7_MigrationCorrect ==
    LET rows == csvOld.rows
        ids  == {rows[i][1] : i \in DOMAIN rows}
        last(id) == CHOOSE i \in DOMAIN rows :
                       rows[i][1] = id /\ \A j \in DOMAIN rows : rows[j][1] = id => j <= i
        migrated(d) ==
           /\ Keys(d) = ids
           /\ \A id \in ids :
                 Get(d, id) = [buildid |-> rows[last(id)][2],
                               lastupdated |-> rows[last(id)][3],
                               manifest |-> rows[last(id)][4]]
           /\ Cardinality(ids) = Len(rows) => Len(d) = Len(rows)
    IN  /\ (pc = "read" /\ migMsg = "converted") =>
              /\ csvFile.kind = "absent"
              /\ csvOld = pre[1]
              /\ jsonFile.kind = "json" /\ jsonFile.doc.t = "obj"
              /\ migrated(jsonFile.doc.m)
        /\ (pc = "loop" /\ idx = 1 /\ migMsg = "converted") =>
              backup_data.t = "obj" /\ migrated(backup_data.m)
        /\ csvFile.kind = "absent" => pc \notin {"conv_dump", "conv_rename"}
        /\ (pc = "read" /\ pre[1].kind = "rows" /\ ~ RowsValid(pre[1].rows)) =>
              migMsg = "error" /\ disk = pre

\* C7's case: two legacy rows with distinct identities were migrated and loaded.
C7_Witness ==
    /\ pc = "loop"
    /\ migMsg = "converted"
    /\ csvOld = CsvRows(<<LegacyRow570, LegacyRow480>>)
    /\ Len(backup_data.m) = 2

\* C10 (fatal startup): when main ends on an unreadable or incomplete
\* configuration, a missing library or a missing archiver, the exit code is 1,
\* no manifest was handled, the archiver was not run, the migration was not
\* tried and none of the three files was touched.
C10_FatalStartup ==
    fatal \in {"config", "library", "winrar"} =>
       /\ pc = "exited"
       /\ exitCode = 1
       /\ idx = 0
       /\ \A i \in DOMAIN report : report[i] = "" /\ invoked[i] = <<>>
       /\ migMsg = ""
       /\ disk = pre

\* C10's case: the archiver is missing while a legacy file and manifests wait.
C10_Witness ==
    /\ fatal = "winrar"
    /\ csvFile.kind = "rows"
    /\ Len(acfFiles) = MaxManifests

\* C11 (missing source): the step of backup_app that finds the install
\* directory missing ends the manifest Failed, with no archiver run made for it
\* and with self.backup_data and backup.json as they were; and a manifest
\* reported so never has an archiver run.
C11_MissingSource ==
    [][\A i \in DOMAIN report :
          /\ (idx = i /\ report[i] = "" /\ report'[i] = "nodir") =>
                /\ pc = "backup"
                /\ Outcome(report'[i]) = "Failed"
                /\ invoked'[i] = <<>>
                /\ backup_data' = backup_data
                /\ jsonFile' = jsonFile
          /\ report'[i] = "nodir" => invoked'[i] = <<>>]_vars

\* C11's case: the install directory of a manifest whose identity has a stored
\* entry, which the manifest differs from, was missing.
C11_Witness ==
    \E i \in DOMAIN report :
       /\ report[i] = "nodir"
       /\ acfFiles[i] = "appmanifest_481.acf"
       /\ jsonFile = Stored("480", FpX)
       /\ backup_data = Obj(<<[k |-> "480", v |-> FpX]>>)

\* C12 (commit is immediate): the step that reports a manifest backed up leaves
\* its fingerprint in self.backup_data and the whole of self.backup_data in
\* backup.json, and the next manifest has not been started; and at every item
\* boundary of a process none of whose writes of the state file has failed,
\* what load() would read from backup.json is what self.backup_data holds.
C12_CommitImmediate ==
    [][/\ \A i \in DOMAIN report :
            (idx = i /\ report[i] = "" /\ report'[i] = "success") =>
               /\ Get(backup_data'.m, AppData(i).appid) = Fingerprint(AppData(i))
               /\ jsonFile' = JsonDoc(backup_data')
               /\ pc' = "loop" /\ idx' = i + 1
               /\ \A j \in DOMAIN report : j > i => report'[j] = "" /\ invoked'[j] = <<>>
       /\ (pc' = "loop" /\ \A i \in DOMAIN report : report'[i] # "write") =>
             ReadBackupJsonResult(jsonFile').val = backup_data']_vars

\* C12's case: the first of two manifests was backed up beside a stored entry of
\* another identity, and the second has not been started.
C12_Witness ==
    /\ pc = "loop"
    /\ Len(acfFiles) = 2 /\ idx = 2
    /\ report[1] = "success" /\ report[2] = ""
    /\ Len(backup_data.m) = 2
    /\ jsonFile = JsonDoc(backup_data)

\* C13 (each manifest exactly once): a report is made for the manifest the loop
\* is at, for no other, and the loop then moves on by one; a report once made
\* stays as it is for the rest of the process; at an item boundary the manifests
\* before the loop's place have a report and the others have none; at most one
\* archiver run is made per manifest; a process that returns from run_backup has
\* one of Skipped, BackedUp and Failed for every manifest of the listing; and a
\* process that has entered the loop ends.
C13_EachManifestOnce ==
    /\ [][\A i \in DOMAIN report :
             /\ (report'[i] # report[i] /\ report'[i] # "") =>
                   /\ idx = i /\ report[i] = ""
                   /\ idx' = i + 1 /\ pc' = "loop"
                   /\ \A j \in DOMAIN report : j # i => report'[j] = report[j]
             /\ (report[i] # "" /\ pc' \notin {"main", "exited"}) =>
                   report'[i] = report[i]]_vars
    /\ [](\A i \in DOMAIN report :
             /\ pc = "loop" => (i < idx <=> report[i] # "")
             /\ pc \in {"backup", "compress", "commit", "dump"} =>
                   (i < idx <=> report[i] # "") /\ idx \in DOMAIN report
             /\ Len(invoked[i]) <= 1
             /\ (pc = "exited" /\ exitCode = 0) =>
                   Outcome(report[i]) \in {"Skipped", "BackedUp", "Failed"})
    /\ ((pc = "loop" /\ idx = 1) ~> (pc = "exited"))

\* C13's case: a process has returned from run_backup with manifests in each
\* of two different terminal states, over a listing of the largest size.
C13_Witness ==
    /\ pc = "exited" /\ exitCode = 0
    /\ Len(acfFiles) = MaxManifests
    /\ \E i, j \in DOMAIN report :
          Outcome(report[i]) = "BackedUp" /\ Outcome(report[j]) = "Failed"

\* C14 (round trip): what load() reads from the text persist() wrote is the
\* mapping that was persisted: the same identities in the same order, each with
\* its three fields, every string character for character.
C14_RoundTrip ==
    pc = "loaded" => backup_data = Obj(committed)

\* C14's case: a mapping of the largest size was written and read back, with a
\* quotation mark and a backslash in an identity and a line feed in a field.
C14_Witness ==
    /\ pc = "loaded"
    /\ Len(committed) = MaxEntries
    /\ Has(committed, <<"k", Quote, Backslash, "u">>)
    /\ \E i \in DOMAIN committed : committed[i].v.m[1].v.s = RtStrings[5]
    /\ pre[3].kind = "text"

\* C15 (destination naming): the archiver is given the destination
\* [480][100][231114][555]Spacewar.rar for the manifest of 480 with build id
\* 100, last-updated 1700000000 and manifest id 555, whatever the machine the
\* program runs on, and once the manifest is backed up the store maps 480 to
\* that build id, last-updated and manifest id.
C15_DestinationName ==
    \A i \in DOMAIN invoked :
       (acfFiles[i] = "appmanifest_480.acf" /\ invoked[i] # <<>>) =>
          /\ Destination(i) = "[480][100][231114][555]Spacewar.rar"
          /\ report[i] = "success" => Get(backup_data.m, "480") = FpX

\* C16 (change detector): for a parsed manifest and a store that holds, for its
\* identity, no entry or a fingerprint, _is_backup_current says true exactly
\* when there is an entry and its build id, last-updated and manifest id all
\* equal the manifest's; the manifest is reported current exactly then and goes
\* on to backup_app otherwise; and the step that evaluates it changes neither
\* self.backup_data nor backup.json.
C16_ChangeDetector ==
    [][(pc = "loop" /\ idx \in DOMAIN report /\ pc' # "exited"
          /\ AppData(idx).err = "" /\ backup_data.t = "obj"
          /\ (Has(backup_data.m, AppData(idx).appid) => HasStoredFp(idx))) =>
          LET app   == AppData(idx)
              equal == /\ Has(backup_data.m, app.appid)
                       /\ StoredFor(idx).buildid = app.buildid
                       /\ StoredFor(idx).lastupdated = app.lastupdated
                       /\ StoredFor(idx).manifest = app.manifest
          IN  /\ IsBackupCurrent(backup_data, app) = (IF equal THEN "true" ELSE "false")
              /\ equal => pc' = "loop" /\ report'[idx] = "current"
              /\ ~ equal => pc' = "backup" /\ report'[idx] = ""
              /\ backup_data' = backup_data
              /\ jsonFile' = jsonFile]_vars

\* C16's case: of two manifests of one identity the first was found current
\* against the stored fingerprint and the second, with another build id, not.
C16_Witness ==
    /\ acfFiles = <<"appmanifest_480.acf", "appmanifest_481.acf">>
    /\ report[1] = "current"
    /\ pc = "backup" /\ idx = 2
    /\ backup_data = Obj(<<[k |-> "480", v |-> FpX]>>)

\* The place of the brace that closes the section opened before place p, depth
\* braces being open at p (0 when the text ends first).
RECURSIVE ClosingBrace(_, _, _)
ClosingBrace(toks, p, depth) ==
    IF p > Len(toks) THEN 0
    ELSE IF toks[p].t = "open" THEN ClosingBrace(toks, p + 1, depth + 1)
    ELSE IF toks[p].t = "close"
    THEN IF depth = 1 THEN p ELSE ClosingBrace(toks, p + 1, depth - 1)
    ELSE ClosingBrace(toks, p + 1, depth)

\* The places of the manifest fields inside the first InstalledDepots
\* sub-section: between the brace that follows the first marker and the brace
\* that closes it.
ManifestsInFirstSection(toks) ==
    IF MarkerAt(toks) = {} THEN {}
    ELSE LET first == Min(MarkerAt(toks))
             close == ClosingBrace(toks, first + 2, 1)
         IN  IF first + 1 > Len(toks) \/ toks[first + 1].t # "open" \/ close = 0
             THEN {}
             ELSE {p \in KvAt(toks, "manifest") : first + 1 < p /\ p < close}

\* C17 (nested field of the parser): a manifest that lacks a scalar label, or
\* whose first InstalledDepots sub-section holds no manifest field, is never
\* taken beyond parsing: no archiver run is made for it and, once handled, it
\* is reported with a parse error, which names a label the text lacks; and a
\* manifest whose first sub-section holds a manifest field is parsed to the
\* first one there.
C17_NestedManifest ==
    \A i \in DOMAIN acfFiles :
       LET toks    == FileContent(acfFiles[i])
           lacking == {key \in {"appid", "installdir", "buildid", "lastupdated"} :
                          KvAt(toks, key) = {}}
           inside  == ManifestsInFirstSection(toks)
       IN  /\ (lacking # {} \/ inside = {}) =>
                 /\ invoked[i] = <<>>
                 /\ (report[i] # "" => report[i] = "parse")
                 /\ (lacking # {} /\ report[i] # "") => AppData(i).err \in lacking
                 /\ (lacking = {} /\ report[i] # "") => AppData(i).err = "manifest"
           /\ (lacking = {} /\ inside # {} /\ report[i] # "") =>
                 AppData(i).err = "" /\ AppData(i).manifest = toks[Min(inside)].v

\* C18 (a Failed item leaves the in-memory store untouched): at the item
\* boundary after a manifest that parsed and ended Failed, self.backup_data
\* holds for its identity what the store loaded at start and the manifests
\* backed up since then put there: the same entry, or none.
C18_FailedLeavesStore ==
    \A i \in DOMAIN report :
       (pc = "loop" /\ idx = i + 1 /\ Outcome(report[i]) = "Failed"
          /\ AppData(i).err = "" /\ backup_data.t = "obj") =>
          LET id == AppData(i).appid
          IN  /\ Has(backup_data.m, id) <=> Has(committed, id)
              /\ Has(committed, id) => Get(backup_data.m, id) = Get(committed, id)

\* C19 (frame of a commit): at every item boundary of a process that started
\* from a loadable state file, each identity the file mapped at start and no
\* manifest handled so far declares has the entry it had at start, in
\* self.backup_data and in what load() would read from backup.json; no identity
\* has two entries.
C19_CommitFrame ==
    (pc = "loop" /\ NoLegacy /\ Loadable(pre[3]) /\ backup_data.t = "obj") =>
       LET onDisk == ReadBackupJsonResult(jsonFile).val.m
       IN  /\ \A id \in Keys(PreStore) :
                (\A i \in DOMAIN acfFiles : i < idx => AppData(i).appid # id) =>
                   /\ Has(backup_data.m, id)
                   /\ Get(backup_data.m, id) = Get(PreStore, id)
                   /\ Has(onDisk, id)
                   /\ Get(onDisk, id) = Get(PreStore, id)
           /\ \A a, b \in DOMAIN backup_data.m :
                 backup_data.m[a].k = backup_data.m[b].k => a = b

\* C20 (ordering of the archiver call): at most one archiver run is made per
\* manifest; the step that makes it is the step of _compress_files for the
\* manifest at hand, which parsed, which the detector finds not current against
\* self.backup_data as it is at that step, and which has no report yet; a
\* manifest reported current or without install directory has no run; and a
\* step of the loop that changes self.backup_data or backup.json is a step for a
\* manifest whose one archiver run has returned with success.
C20_ArchiverOrder ==
    [][\A i \in DOMAIN invoked :
          /\ Len(invoked'[i]) <= 1
          /\ (invoked'[i] # invoked[i] /\ invoked'[i] # <<>>) =>
                /\ idx = i /\ pc = "compress"
                /\ report[i] = ""
                /\ AppData(i).err = ""
                /\ IsBackupCurrent(backup_data, AppData(i)) = "false"
          /\ report'[i] \in {"current", "nodir", "parse", "state", "date"} =>
                invoked'[i] = <<>>
          /\ (idx = i /\ pc \in {"loop", "backup", "compress", "commit", "dump"}
                /\ pc' \notin {"exited", "main"}
                /\ (backup_data' # backup_data \/ jsonFile' # jsonFile)) =>
                invoked[i] = <<"ok">> /\ pc \in {"commit", "dump"}]_vars

\* C20's case: the archiver has run with success for the second manifest of a
\* listing, after the first was skipped, and the store has not been written yet.
C20_Witness ==
    /\ Len(acfFiles) = 2 /\ idx = 2
    /\ report[1] = "current"
    /\ invoked = << <<>>, <<"ok">> >>
    /\ pc = "commit"
    /\ jsonFile = pre[3]

====
